---------------------------- MODULE Spec2Model ----------------------------
(***************************************************************************)
(* hurl: a command line HTTP client.                                       *)
(*                                                                         *)
(* The module models                                                       *)
(*   - the parameter mini-language (app.rs: Parameter, Token, parse_param) *)
(*     as operators over bounded character sequences, and                  *)
(*   - one or two invocations of the tool (main.rs: main, handle_response; *)
(*     client.rs: perform_method, perform) as processes that share the     *)
(*     on-disk session file.                                               *)
(*                                                                         *)
(* Functions that main.rs, client.rs and app.rs call but whose bodies are  *)
(* not part of the source tree (parse_param, is_data, is_form_file, parse, *)
(* handle_session, handle_parameters, handle_auth, Session::get_or_create, *)
(* Session::update_with_response, Session::save) are modelled from the     *)
(* written specification of the tool; each says so in its comment.         *)
(***************************************************************************)
EXTENDS Integers, Sequences, FiniteSets, TLC

VARIABLES
    pRaw,      \* parser: the raw command-line argument, a sequence of characters
    pOut,      \* parser: <<>> before parse_param ran, <<result>> after
    args,      \* args[i]: the App of invocation i (after from_args / process_config_file)
    srv,       \* srv[i]: the Set-Cookie list the server answers invocation i with
    pc,        \* pc[i]: position of invocation i in main
    err,       \* err[i]: the Error main returned, or NoError
    session,   \* session[i]: Option<Session> of main, <<>> or <<s>>
    loaded,    \* loaded[i]: the Option<Session> as get_or_create returned it
    req,       \* req[i]: <<>> or <<request that was handed to send()>>
    file,      \* the session file of the one (name, host): <<>> or <<s>>
    fileVer,   \* history: number of saves so far
    ver,       \* history: ver[i] = fileVer when invocation i loaded the session
    wrote,     \* history: wrote[i] = fileVer after invocation i's save, 0 if none
    nwrites    \* history: number of times invocation i wrote the file

parseVars == <<pRaw, pOut>>
runVars == <<args, srv, pc, err, session, loaded, req, file, fileVer, ver, wrote, nwrites>>
vars == <<pRaw, pOut, args, srv, pc, err, session, loaded, req, file, fileVer, ver, wrote, nwrites>>

-----------------------------------------------------------------------------
(* Bounds *)

\* longest raw argument handed to parse_param
MaxLen == 5
\* longest parameter list of one invocation
MaxParams == 2
\* most Set-Cookie headers in one response
MaxSetCookies == 2

-----------------------------------------------------------------------------
(* The parameter mini-language *)

\* Option<T>::None for strings
None == "None"

\* the characters raw arguments are made of: two ordinary ones, the three
\* separator characters and the escape character
Chars == {"x", "f", ":", "=", "@", "\\"}

SepChars == {":", "=", "@"}

\* enum Parameter, one variant per separator
ParamKinds == {"Header", "Data", "RawJsonData", "Query", "FormFile", "DataFile", "RawJsonDataFile"}

\* the separators in descending length order, as character sequences
Separators ==
    << <<":", "=", "@">>, <<"=", "@">>, <<":", "=">>, <<"=", "=">>,
       <<":">>, <<"=">>, <<"@">> >>

\* the variant each separator selects (the comments of enum Parameter)
KindOf(sep) ==
    CASE sep = <<":">> -> "Header"
      [] sep = <<"=">> -> "Data"
      [] sep = <<":", "=">> -> "RawJsonData"
      [] sep = <<"=", "=">> -> "Query"
      [] sep = <<"@">> -> "FormFile"
      [] sep = <<"=", "@">> -> "DataFile"
      [] sep = <<":", "=", "@">> -> "RawJsonDataFile"

\* enum Token: Text or Escape, here one token per character
Text(c) == <<"Text", c>>
Escape(c) == <<"Escape", c>>

\* Tokenise: a backslash immediately followed by a separator character is
\* one Escape token carrying that character; every other character is Text.
RECURSIVE gather_escapes(_)
gather_escapes(s) ==
    IF s = <<>> THEN <<>>
    ELSE IF Head(s) = "\\" /\ Len(s) >= 2 /\ s[2] \in SepChars
         THEN <<Escape(s[2])>> \o gather_escapes(SubSeq(s, 3, Len(s)))
         ELSE <<Text(Head(s))>> \o gather_escapes(Tail(s))

\* separator sep stands at position i of the token list, unescaped
MatchesAt(toks, i, sep) ==
    /\ i + Len(sep) - 1 <= Len(toks)
    /\ \A k \in 1..Len(sep) : toks[i + k - 1] = Text(sep[k])

\* the characters the tokens stand for, escapes resolved
Resolve(toks) == [k \in 1..Len(toks) |-> toks[k][2]]

\* index in Separators of the first (hence longest) separator matching at i, 0 if none
RECURSIVE FirstSepFrom(_, _, _)
FirstSepFrom(toks, i, n) ==
    IF n > Len(Separators) THEN 0
    ELSE IF MatchesAt(toks, i, Separators[n]) THEN n
    ELSE FirstSepFrom(toks, i, n + 1)

\* a faulty variant: candidates tried in ascending length order
RECURSIVE ShortestSepFrom(_, _, _)
ShortestSepFrom(toks, i, n) ==
    IF n < 1 THEN 0
    ELSE IF MatchesAt(toks, i, Separators[n]) THEN n
    ELSE ShortestSepFrom(toks, i, n - 1)

\* a faulty variant of SepAt: the shortest separator matching at i
SepAtShortest(toks, i) == ShortestSepFrom(toks, i, Len(Separators))

\* the separator chosen at position i: candidates in descending length order
SepAt(toks, i) == FirstSepFrom(toks, i, 1)

ParseError(raw) == [ok |-> FALSE, kind |-> "ParameterMissingSeparator", key |-> raw, value |-> <<>>]

\* scan left to right for the first position where a separator matches
RECURSIVE ScanFrom(_, _, _)
ScanFrom(raw, toks, i) ==
    IF i > Len(toks) THEN ParseError(raw)
    ELSE LET n == SepAt(toks, i) IN
         IF n = 0 THEN ScanFrom(raw, toks, i + 1)
         ELSE [ok |-> TRUE,
               kind |-> KindOf(Separators[n]),
               key |-> Resolve(SubSeq(toks, 1, i - 1)),
               value |-> Resolve(SubSeq(toks, i + Len(Separators[n]), Len(toks)))]

parse_param(raw) == ScanFrom(raw, gather_escapes(raw), 1)

\* all character sequences of length at most n
RawArgs(n) == UNION {[1..k -> Chars] : k \in 0..n}


-----------------------------------------------------------------------------
(* Data of an invocation *)

\* enum Method
Methods == {"HEAD", "GET", "PUT", "POST", "PATCH", "DELETE"}

\* enum Error, with NoError for Ok(())
NoError == "NoError"

Errors ==
    {"ParameterMissingSeparator", "MissingUrlAndCommand", "NotFormButHasFormFile",
     "ClientSerialization", "ClientTimeout", "ClientWithStatus", "ClientOther",
     "SerdeJson", "IO", "UrlParseError", "SyntaxLoadError"}

\* a parsed Parameter
Param(kind, key, value) == [kind |-> kind, key |-> key, value |-> value]

\* all parameter lists of length at most n over the given keys and values
ParamLists(kinds, keys, values, n) ==
    UNION {[1..k -> {Param(kd, ky, vl) : kd \in kinds, ky \in keys, vl \in values}] : k \in 0..n}

\* HashMap<String, String>
EmptyMap == [h \in {} |-> None]

Overlay(m, k, v) == [h \in (DOMAIN m) \cup {k} |-> IF h = k THEN v ELSE m[h]]

\* struct Session (path, name and host are fixed: one name and one host)
Session(auth, token, headers, cookies) ==
    [auth |-> auth, token |-> token, headers |-> headers, cookies |-> cookies]

\* Session::default() with name and host set: a fresh, empty session
EmptySession == Session(None, None, EmptyMap, <<>>)

\* Parameter::is_form_file (from the specification: the FormFile variant)
is_form_file(p) == p.kind = "FormFile"

\* Parameter::is_data (from the specification: the four body-bearing variants)
is_data(p) == p.kind \in {"Data", "RawJsonData", "DataFile", "RawJsonDataFile"}

-----------------------------------------------------------------------------
(* main.rs: method inference *)

\* a faulty variant: POST as soon as there is any parameter at all
InferredMethodAnyParam(ps) == IF Len(ps) > 0 THEN "POST" ELSE "GET"

\* main, no subcommand: POST if any parameter is_data, else GET
InferredMethod(ps) == IF \E k \in 1..Len(ps) : is_data(ps[k]) THEN "POST" ELSE "GET"

\* main / perform_method: the method handed to perform
MethodOf(a) == IF a.cmd = None THEN InferredMethod(a.params) ELSE a.cmd

-----------------------------------------------------------------------------
(* client.rs: perform and the builder steps it calls *)

\* a faulty variant: all() where any() is meant
IsMultipartAll(ps) == Len(ps) > 0 /\ \A k \in 1..Len(ps) : is_form_file(ps[k])

\* perform: is_multipart
IsMultipart(ps) == \E k \in 1..Len(ps) : is_form_file(ps[k])

\* a faulty variant: the form flag tested the wrong way round
NotFormButHasFormFileInverted(a) == IsMultipart(a.params) /\ a.form

\* perform: the NotFormButHasFormFile early return
NotFormButHasFormFile(a) == IsMultipart(a.params) /\ ~a.form

\* a faulty variant: the flag passed without negation
UpdateSessionFlagPlain(a) == a.read_only

\* perform: the update flag handed to handle_session
UpdateSessionFlag(a) == ~a.read_only

\* client.request(method, url): a builder with nothing set
NewBuilder(method) ==
    [method |-> method, headers |-> EmptyMap, authz |-> <<>>, cookie |-> <<>>, body |-> "none"]

\* handle_session, the builder (from the specification): the session's custom
\* headers, its stored credential (token before basic auth) and its cookies
\* are set on the request
handle_session(b, sOpt) ==
    IF sOpt = <<>> THEN b
    ELSE LET s == sOpt[1] IN
         [b EXCEPT
            !.headers = [h \in (DOMAIN b.headers) \cup (DOMAIN s.headers) |->
                            IF h \in DOMAIN s.headers THEN s.headers[h] ELSE b.headers[h]],
            !.authz = IF s.token # None THEN <<"Bearer", s.token>>
                      ELSE IF s.auth # None THEN <<"Basic", s.auth>>
                      ELSE b.authz,
            !.cookie = s.cookies]

\* overlay the Header parameters, in order, on a header map
RECURSIVE WithHeaderParams(_, _)
WithHeaderParams(m, ps) ==
    IF ps = <<>> THEN m
    ELSE WithHeaderParams(
            IF Head(ps).kind = "Header" THEN Overlay(m, Head(ps).key, Head(ps).value) ELSE m,
            Tail(ps))

\* handle_session, the session (from the specification): when updating, the
\* session remembers the Header parameters and the credential actually used
session_after_handle_session(sOpt, ps, update, auth, token) ==
    IF sOpt = <<>> \/ ~update THEN sOpt
    ELSE LET s == sOpt[1] IN
         << [s EXCEPT
               !.headers = WithHeaderParams(s.headers, ps),
               !.token = IF token # None THEN token ELSE s.token,
               !.auth = IF token = None /\ auth # None THEN auth ELSE s.auth] >>

\* handle_parameters, body encoding (from the specification)
BodyEncoding(form, multipart, ps) ==
    IF multipart THEN "multipart"
    ELSE IF form /\ \E k \in 1..Len(ps) : ps[k].kind \in {"Data", "DataFile"} THEN "form"
    ELSE IF \E k \in 1..Len(ps) :
               ps[k].kind \in {"Data", "RawJsonData", "DataFile", "RawJsonDataFile"} THEN "json"
    ELSE "none"

\* handle_parameters (from the specification): Header parameters and the body
handle_parameters(b, form, multipart, ps) ==
    [b EXCEPT !.headers = WithHeaderParams(b.headers, ps),
              !.body = BodyEncoding(form, multipart, ps)]

\* the errors handle_parameters can return: a file named by a parameter cannot
\* be read, or a raw JSON text put into a JSON body does not parse
ParameterErrors(form, multipart, ps) ==
    (IF \E k \in 1..Len(ps) : ps[k].kind \in {"FormFile", "DataFile", "RawJsonDataFile"}
        THEN {"IO"} ELSE {})
    \cup
    (IF BodyEncoding(form, multipart, ps) = "json"
        /\ \E k \in 1..Len(ps) : ps[k].kind \in {"RawJsonData", "RawJsonDataFile"}
        THEN {"SerdeJson"} ELSE {})

\* handle_auth (from the specification): explicit flags, the token before basic auth
handle_auth(b, auth, token) ==
    [b EXCEPT !.authz = IF token # None THEN <<"Bearer", token>>
                        ELSE IF auth # None THEN <<"Basic", auth>>
                        ELSE b.authz]

\* a faulty variant: the session applied after the parameters and the flags
BuildRequestSessionLast(a, sOpt) ==
    handle_session(
        handle_auth(
            handle_parameters(NewBuilder(MethodOf(a)), a.form, IsMultipart(a.params), a.params),
            a.auth, a.token),
        sOpt)

\* perform: handle_session, then handle_parameters, then handle_auth
BuildRequest(a, sOpt) ==
    handle_auth(
        handle_parameters(
            handle_session(NewBuilder(MethodOf(a)), sOpt),
            a.form, IsMultipart(a.params), a.params),
        a.auth, a.token)

\* the errors send() can return
TransportErrors == {"ClientTimeout", "ClientOther"}

-----------------------------------------------------------------------------
(* session.rs *)

\* Session::get_or_create (from the specification): the stored record if the
\* file exists, else a fresh empty session; the file is not written
get_or_create(f) == IF f = <<>> THEN EmptySession ELSE f[1]

\* main: app.session.as_ref().map(get_or_create)
LoadSession(a, f) == IF a.session = None THEN <<>> ELSE <<get_or_create(f)>>

IndexOfName(cs, n) ==
    IF \E k \in 1..Len(cs) : cs[k][1] = n
    THEN CHOOSE k \in 1..Len(cs) : cs[k][1] = n /\ \A j \in 1..(k - 1) : cs[j][1] # n
    ELSE 0

\* a faulty variant: every cookie of the response is pushed
MergeCookiePush(cs, c) == Append(cs, c)

\* one cookie merged by name: the value replaced in place, else appended
MergeCookie(cs, c) ==
    LET k == IndexOfName(cs, c[1]) IN
    IF k = 0 THEN Append(cs, c) ELSE [cs EXCEPT ![k] = c]

RECURSIVE MergeCookies(_, _)
MergeCookies(cs, set) ==
    IF set = <<>> THEN cs ELSE MergeCookies(MergeCookie(cs, Head(set)), Tail(set))

\* Session::update_with_response (from the specification)
update_with_response(s, setCookies) == [s EXCEPT !.cookies = MergeCookies(s.cookies, setCookies)]


-----------------------------------------------------------------------------
(* The invocations *)

Procs == {1, 2}

\* struct App, as main sees it after from_args and process_config_file; with
\* a method subcommand, url and params are those of its MethodData
App(cmd, url, params, form, read_only, auth, token, sess) ==
    [cmd |-> cmd, url |-> url, params |-> params, form |-> form,
     read_only |-> read_only, auth |-> auth, token |-> token, session |-> sess]

\* App::validate
ValidateFails(a) == a.cmd = None /\ a.url = None

Exit(i, e) ==
    /\ pc' = [pc EXCEPT ![i] = "exit"]
    /\ err' = [err EXCEPT ![i] = e]

\* main: validate returns MissingUrlAndCommand
MainValidateError(i) ==
    /\ pc[i] = "start"
    /\ ValidateFails(args[i])
    /\ Exit(i, "MissingUrlAndCommand")
    /\ UNCHANGED <<parseVars, args, srv, session, loaded, req, file, fileVer, ver, wrote, nwrites>>

\* main: syntax::build fails
MainSyntaxError(i) ==
    /\ pc[i] = "start"
    /\ ~ValidateFails(args[i])
    /\ Exit(i, "SyntaxLoadError")
    /\ UNCHANGED <<parseVars, args, srv, session, loaded, req, file, fileVer, ver, wrote, nwrites>>

\* main: validate and syntax::build pass, the session is read
MainLoadSession(i) ==
    /\ pc[i] = "start"
    /\ ~ValidateFails(args[i])
    /\ session' = [session EXCEPT ![i] = LoadSession(args[i], file)]
    /\ loaded' = [loaded EXCEPT ![i] = LoadSession(args[i], file)]
    /\ ver' = [ver EXCEPT ![i] = fileVer]
    /\ pc' = [pc EXCEPT ![i] = "loaded"]
    /\ UNCHANGED <<parseVars, args, srv, err, req, file, fileVer, wrote, nwrites>>

\* perform: parse(app, raw_url) fails
PerformUrlError(i) ==
    /\ pc[i] = "loaded"
    /\ args[i].url = "bad"
    /\ Exit(i, "UrlParseError")
    /\ UNCHANGED <<parseVars, args, srv, session, loaded, req, file, fileVer, ver, wrote, nwrites>>

\* perform: a form file without form mode
PerformNotForm(i) ==
    /\ pc[i] = "loaded"
    /\ args[i].url = "ok"
    /\ NotFormButHasFormFile(args[i])
    /\ Exit(i, "NotFormButHasFormFile")
    /\ UNCHANGED <<parseVars, args, srv, session, loaded, req, file, fileVer, ver, wrote, nwrites>>

\* the session as handle_session leaves it
SessionAfterPerform(i) ==
    session_after_handle_session(session[i], args[i].params, UpdateSessionFlag(args[i]),
                                 args[i].auth, args[i].token)

\* perform: handle_session ran, handle_parameters fails
PerformParameterError(i) ==
    /\ pc[i] = "loaded"
    /\ args[i].url = "ok"
    /\ ~NotFormButHasFormFile(args[i])
    /\ \E e \in ParameterErrors(args[i].form, IsMultipart(args[i].params), args[i].params) :
           Exit(i, e)
    /\ session' = [session EXCEPT ![i] = SessionAfterPerform(i)]
    /\ UNCHANGED <<parseVars, args, srv, loaded, req, file, fileVer, ver, wrote, nwrites>>

\* perform: the request is built and send() fails
PerformTransportError(i) ==
    /\ pc[i] = "loaded"
    /\ args[i].url = "ok"
    /\ ~NotFormButHasFormFile(args[i])
    /\ \E e \in TransportErrors : Exit(i, e)
    /\ session' = [session EXCEPT ![i] = SessionAfterPerform(i)]
    /\ req' = [req EXCEPT ![i] = <<BuildRequest(args[i], session[i])>>]
    /\ UNCHANGED <<parseVars, args, srv, loaded, file, fileVer, ver, wrote, nwrites>>

\* perform: the request is built and send() returns the response
PerformOk(i) ==
    /\ pc[i] = "loaded"
    /\ args[i].url = "ok"
    /\ ~NotFormButHasFormFile(args[i])
    /\ session' = [session EXCEPT ![i] = SessionAfterPerform(i)]
    /\ req' = [req EXCEPT ![i] = <<BuildRequest(args[i], session[i])>>]
    /\ pc' = [pc EXCEPT ![i] = "responded"]
    /\ UNCHANGED <<parseVars, args, srv, err, loaded, file, fileVer, ver, wrote, nwrites>>

\* the errors handle_response can return before it reaches the session:
\* resp.text() and to_string_pretty
BodyErrors == {"ClientOther", "SerdeJson"}

\* a faulty variant: the read-only flag is not consulted
ShouldPersistAlways(a, sOpt) == sOpt # <<>>

\* handle_response: if !app.read_only { if let Some(s) = session
ShouldPersist(a, sOpt) == ~a.read_only /\ sOpt # <<>>

\* a faulty variant: the stored record is read again and its cookies kept
SavedSessionRereading(s, f, setCookies) ==
    update_with_response(
        [s EXCEPT !.cookies = IF f = <<>> THEN s.cookies ELSE MergeCookies(f[1].cookies, s.cookies)],
        setCookies)

\* handle_response: s.update_with_response(&resp); s.save(app) writes the
\* session main holds, whatever the file holds by now
SavedSession(s, f, setCookies) == update_with_response(s, setCookies)

\* the write of the session file, with its history
WriteFile(i, s) ==
    /\ file' = <<s>>
    /\ fileVer' = fileVer + 1
    /\ wrote' = [wrote EXCEPT ![i] = fileVer + 1]
    /\ nwrites' = [nwrites EXCEPT ![i] = @ + 1]

\* a faulty variant: the session is saved before the body is read
HandleResponseBodyErrorAfterSave(i) ==
    /\ pc[i] = "responded"
    /\ \E e \in BodyErrors : Exit(i, e)
    /\ IF ShouldPersist(args[i], session[i])
       THEN /\ WriteFile(i, SavedSession(session[i][1], file, srv[i]))
            /\ session' = [session EXCEPT ![i] = <<SavedSession(session[i][1], file, srv[i])>>]
       ELSE UNCHANGED <<session, file, fileVer, wrote, nwrites>>
    /\ UNCHANGED <<parseVars, args, srv, loaded, req, ver>>

\* handle_response: reading or printing the body fails
HandleResponseBodyError(i) ==
    /\ pc[i] = "responded"
    /\ \E e \in BodyErrors : Exit(i, e)
    /\ UNCHANGED <<parseVars, args, srv, session, loaded, req, file, fileVer, ver, wrote, nwrites>>

\* handle_response: the response is printed, the session updated and saved
HandleResponse(i) ==
    /\ pc[i] = "responded"
    /\ Exit(i, NoError)
    /\ IF ShouldPersist(args[i], session[i])
       THEN /\ WriteFile(i, SavedSession(session[i][1], file, srv[i]))
            /\ session' = [session EXCEPT ![i] = <<SavedSession(session[i][1], file, srv[i])>>]
       ELSE UNCHANGED <<session, file, fileVer, wrote, nwrites>>
    /\ UNCHANGED <<parseVars, args, srv, loaded, req, ver>>

Step(i) ==
    \/ MainValidateError(i)
    \/ MainSyntaxError(i)
    \/ MainLoadSession(i)
    \/ PerformUrlError(i)
    \/ PerformNotForm(i)
    \/ PerformParameterError(i)
    \/ PerformTransportError(i)
    \/ PerformOk(i)
    \/ HandleResponseBodyError(i)
    \/ HandleResponse(i)

Next == \E i \in Procs : Step(i)

\* parse_param applied to the raw argument
ParseParam ==
    /\ pOut = <<>>
    /\ pOut' = <<parse_param(pRaw)>>
    /\ UNCHANGED <<pRaw, runVars>>

NextParse == ParseParam

-----------------------------------------------------------------------------
(* Initial states *)

\* an invocation that does not take place
NoApp == App(None, None, <<>>, FALSE, FALSE, None, None, None)

\* the state of the invocations before main runs; started: who runs
InitRun(started) ==
    /\ pc = [i \in Procs |-> IF i \in started THEN "start" ELSE "exit"]
    /\ err = [i \in Procs |-> NoError]
    /\ session = [i \in Procs |-> <<>>]
    /\ loaded = [i \in Procs |-> <<>>]
    /\ req = [i \in Procs |-> <<>>]
    /\ fileVer = 0
    /\ ver = [i \in Procs |-> 0]
    /\ wrote = [i \in Procs |-> 0]
    /\ nwrites = [i \in Procs |-> 0]

\* a session file left by earlier invocations
StoredSession ==
    Session("old:pw", None, [h \in {"h1"} |-> "x"], << <<"c1", "1">> >>)

\* every command line: a url and parameters, with or without a method
\* subcommand, or nothing at all
CommandLines ==
    {App(c, u, ps, f, ro, au, tk, se) :
        c \in Methods \cup {None}, u \in {"bad", "ok"},
        ps \in ParamLists(ParamKinds, {"h1"}, {"y"}, MaxParams),
        f \in BOOLEAN, ro \in BOOLEAN,
        au \in {None, "alice:secret"}, tk \in {None, "T"}, se \in {None, "s"}}
    \cup
    {App(None, None, <<>>, f, ro, au, tk, se) :
        f \in BOOLEAN, ro \in BOOLEAN,
        au \in {None, "alice:secret"}, tk \in {None, "T"}, se \in {None, "s"}}

\* one invocation, any command line; the session file absent or present
Init ==
    /\ pRaw = <<>> /\ pOut = <<>>
    /\ args \in {[i \in Procs |-> IF i = 1 THEN a ELSE NoApp] : a \in CommandLines}
    /\ srv = [i \in Procs |-> << <<"c1", "2">>, <<"c2", "1">> >>]
    /\ file \in (IF args[1].session = None THEN {<<>>} ELSE {<<>>, <<StoredSession>>})
    /\ InitRun({1})

Spec == Init /\ [][Next]_vars

\* the parser alone: any raw argument
InitParse ==
    /\ pRaw \in RawArgs(MaxLen) /\ pOut = <<>>
    /\ args = [i \in Procs |-> NoApp]
    /\ srv = [i \in Procs |-> <<>>]
    /\ file = <<>>
    /\ InitRun({})

SpecParse == InitParse /\ [][NextParse]_vars


\* command lines that fail before a request is sent, each in its own way
FailingCommandLines ==
    {App(None, None, <<>>, FALSE, FALSE, None, None, "s"),
     App(None, "bad", <<>>, FALSE, FALSE, None, None, "s"),
     App(None, "ok", <<Param("FormFile", "h1", "y")>>, FALSE, FALSE, None, None, "s"),
     App(None, "ok", <<Param("DataFile", "h1", "y")>>, FALSE, FALSE, None, None, "s")}

\* a plain request with the session and no flags
PlainCommandLine == App(None, "ok", <<>>, FALSE, FALSE, None, None, "s")

\* session files holding credentials and custom headers
CredentialFiles ==
    {<<>>} \cup
    {<<Session(au, tk, hs, <<>>)>> :
        au \in {None, "old:pw"}, tk \in {None, "S"},
        hs \in {EmptyMap, [h \in {"h1"} |-> "x"]}}

\* two invocations on the same session: the first with any auth flags and
\* Header parameters, the second without flags
InitAuth ==
    /\ pRaw = <<>> /\ pOut = <<>>
    /\ args \in
         {[i \in Procs |-> IF i = 1 THEN a ELSE b] :
            a \in {App(None, "ok", ps, FALSE, ro, au, tk, "s") :
                     ps \in ParamLists({"Header"}, {"h1"}, {"y", "z"}, MaxParams),
                     ro \in BOOLEAN, au \in {None, "alice:secret"}, tk \in {None, "T"}},
            b \in {PlainCommandLine} \cup FailingCommandLines}
    /\ srv = [i \in Procs |-> << <<"c1", "1">> >>]
    /\ file \in CredentialFiles
    /\ InitRun(Procs)

SpecAuth == InitAuth /\ [][Next]_vars

\* all Set-Cookie lists of length at most n over the given names and values
SetCookieLists(names, values, n) ==
    UNION {[1..k -> {<<nm, vl>> : nm \in names, vl \in values}] : k \in 0..n}

\* session files holding cookies
CookieFiles ==
    {<<>>,
     <<Session(None, None, EmptyMap, << <<"c1", "0">> >>)>>,
     <<Session(None, None, EmptyMap, << <<"c1", "0">>, <<"c2", "0">> >>)>>,
     <<Session(None, None, EmptyMap, << <<"c2", "0">>, <<"c1", "0">> >>)>>}

\* two invocations on the same session whose responses set cookies
InitRace ==
    /\ pRaw = <<>> /\ pOut = <<>>
    /\ args \in
         {[i \in Procs |-> IF i = 1 THEN App(None, "ok", <<>>, FALSE, ro, None, None, "s")
                           ELSE PlainCommandLine] : ro \in BOOLEAN}
         \cup
         {[i \in Procs |-> IF i = 1 THEN PlainCommandLine ELSE b] : b \in FailingCommandLines}
    /\ srv \in
         {[i \in Procs |-> IF i = 1 THEN r1 ELSE r2] :
            r1 \in SetCookieLists({"c1", "c2"}, {"a", "b"}, MaxSetCookies),
            r2 \in IF args[2] = PlainCommandLine
                   THEN SetCookieLists({"c1", "c2"}, {"c"}, MaxSetCookies)
                   ELSE {<<>>}}
    /\ file \in CookieFiles
    /\ InitRun(Procs)

SpecRace == InitRace /\ [][Next]_vars

-----------------------------------------------------------------------------
(* Properties of one invocation *)

HasKind(ps, kinds) == \E k \in 1..Len(ps) : ps[k].kind \in kinds

\* send() was called with a request
Sent(i) == req[i] # <<>>

\* perform was called and has returned
PerformReturned(i) ==
    \/ pc[i] = "responded"
    \/ /\ pc[i] = "exit"
       /\ args[i] # NoApp
       /\ err[i] \notin {"MissingUrlAndCommand", "SyntaxLoadError"}

\* C2 as stated: whenever the parameter list holds a FormFile and form mode
\* is off, perform fails with NotFormButHasFormFile and sends no request.
C2_FormFileAlwaysNotForm ==
    \A i \in Procs :
        (PerformReturned(i) /\ HasKind(args[i].params, {"FormFile"}) /\ ~args[i].form)
            => (err[i] = "NotFormButHasFormFile" /\ ~Sent(i))

\* C2 amended: with a FormFile and form mode off, perform fails with
\* NotFormButHasFormFile if the url parses and with UrlParseError if it does
\* not; either way no request is sent and the session is neither changed
\* nor written.
C2_FormFileNotFormAfterUrl ==
    \A i \in Procs :
        (PerformReturned(i) /\ HasKind(args[i].params, {"FormFile"}) /\ ~args[i].form)
            => /\ args[i].url = "ok" => err[i] = "NotFormButHasFormFile"
               /\ args[i].url = "bad" => err[i] = "UrlParseError"
               /\ pc[i] = "exit"
               /\ ~Sent(i)
               /\ session[i] = loaded[i]
               /\ nwrites[i] = 0

\* C2 witness: a form file beside a data parameter, with auth flags and a
\* stored session, form mode off: perform returned NotFormButHasFormFile.
C2_Witness ==
    /\ pc[1] = "exit" /\ err[1] = "NotFormButHasFormFile"
    /\ args[1].cmd = "PUT" /\ ~args[1].form
    /\ Len(args[1].params) = 2
    /\ args[1].params[1].kind = "Data" /\ args[1].params[2].kind = "FormFile"
    /\ args[1].auth # None /\ args[1].token # None
    /\ loaded[1] = <<StoredSession>>

\* C3: a read-only invocation reads the session and merges it into the
\* request, but never changes the session it loaded and never writes or
\* creates the session file, whatever the outcome.
C3_ReadOnlyLeavesSession ==
    /\ [](\A i \in Procs :
            args[i].read_only =>
                /\ session[i] = loaded[i]
                /\ nwrites[i] = 0
                /\ (Sent(i) /\ loaded[i] # <<>>) =>
                      /\ req[i][1].cookie = loaded[i][1].cookies
                      /\ \A h \in DOMAIN loaded[i][1].headers : h \in DOMAIN req[i][1].headers)
    /\ [][\A i \in Procs :
            (args[i].read_only /\ pc'[i] # pc[i]) => file' = file]_vars

\* C3 witness: a read-only invocation with an auth flag and a stored session
\* completed a request whose response set cookies; the file is as it was.
C3_Witness ==
    /\ args[1].read_only /\ args[1].auth # None
    /\ pc[1] = "exit" /\ err[1] = NoError /\ Sent(1)
    /\ loaded[1] = <<StoredSession>>
    /\ srv[1] # <<>>
    /\ file = <<StoredSession>>

\* C5: without a method subcommand the method is POST if some parameter is
\* Data, RawJsonData, DataFile or RawJsonDataFile and GET otherwise; with a
\* subcommand it is that method.
C5_MethodSelection ==
    \A i \in Procs :
        Sent(i) =>
            /\ (args[i].cmd = None
                  /\ HasKind(args[i].params, {"Data", "RawJsonData", "DataFile", "RawJsonDataFile"}))
                 => req[i][1].method = "POST"
            /\ (args[i].cmd = None
                  /\ ~HasKind(args[i].params, {"Data", "RawJsonData", "DataFile", "RawJsonDataFile"}))
                 => req[i][1].method = "GET"
            /\ args[i].cmd # None => req[i][1].method = args[i].cmd

\* C5 witness: no subcommand, a header and a form file only: GET was sent.
C5_Witness ==
    /\ Sent(1) /\ args[1].cmd = None
    /\ Len(args[1].params) = 2
    /\ args[1].params[1].kind = "Header" /\ args[1].params[2].kind = "FormFile"
    /\ req[1][1].method = "GET"

\* C7: the body of a request is multipart if a FormFile is present; else
\* URL-encoded if form mode is set and a Data or DataFile is present; else
\* JSON if a Data, RawJsonData, DataFile or RawJsonDataFile is present; else
\* there is no body.
C7_BodyEncoding ==
    \A i \in Procs :
        Sent(i) =>
            LET ps == args[i].params
                ff == HasKind(ps, {"FormFile"})
                fd == args[i].form /\ HasKind(ps, {"Data", "DataFile"})
                js == HasKind(ps, {"Data", "RawJsonData", "DataFile", "RawJsonDataFile"})
                body == req[i][1].body
            IN /\ body \in {"multipart", "form", "json", "none"}
               /\ ff => body = "multipart"
               /\ (~ff /\ fd) => body = "form"
               /\ (~ff /\ ~fd /\ js) => body = "json"
               /\ (~ff /\ ~fd /\ ~js) => body = "none"

\* C7 witness: form mode, a data parameter and a form file: multipart.
C7_Witness ==
    /\ Sent(1) /\ args[1].form
    /\ Len(args[1].params) = 2
    /\ args[1].params[1].kind = "Data" /\ args[1].params[2].kind = "FormFile"
    /\ req[1][1].body = "multipart"

\* C10: an invocation writes the session file at most once, and only in
\* handle_response after the response arrived and its body was read; an
\* invocation that returns an error has not written or created the file.
C10_WriteOnceAtEnd ==
    /\ [](\A i \in Procs :
            /\ nwrites[i] <= 1
            /\ nwrites[i] = 1 => (pc[i] = "exit" /\ err[i] = NoError /\ Sent(i))
            /\ err[i] # NoError => nwrites[i] = 0)
    /\ [][\A i \in Procs :
            (pc'[i] # pc[i] /\ (file' # file \/ nwrites'[i] # nwrites[i]))
                => (pc[i] = "responded" /\ err'[i] = NoError)]_vars

\* C10 witness: a writable invocation with a session got its response, then
\* failed on the body; the session file was not created.
C10_Witness ==
    /\ pc[1] = "exit" /\ err[1] = "SerdeJson" /\ Sent(1)
    /\ ~args[1].read_only /\ session[1] # <<>>
    /\ file = <<>> /\ nwrites[1] = 0


-----------------------------------------------------------------------------
(* Properties of the session across invocations *)

\* C6: a header name stored in the session and also given as a Header
\* parameter goes out with a command-line value, not the stored one.
C6_ExplicitHeaderWins ==
    \A i \in Procs :
        (Sent(i) /\ loaded[i] # <<>>) =>
            \A h \in DOMAIN loaded[i][1].headers :
                LET given == {k \in 1..Len(args[i].params) :
                                args[i].params[k].kind = "Header" /\ args[i].params[k].key = h}
                IN given # {} =>
                     /\ h \in DOMAIN req[i][1].headers
                     /\ req[i][1].headers[h] \in {args[i].params[k].value : k \in given}

\* C6 witness: the session stores h1: x, the command line gives h1:y, and
\* the request went out with h1: y.
C6_Witness ==
    /\ Sent(1)
    /\ loaded[1] # <<>> /\ "h1" \in DOMAIN loaded[1][1].headers
    /\ loaded[1][1].headers["h1"] = "x"
    /\ args[1].params = <<Param("Header", "h1", "y")>>
    /\ req[1][1].headers["h1"] = "y"

\* invocation j loaded the session file that invocation i wrote
LoadedWriteOf(j, i) == wrote[i] # 0 /\ ver[j] = wrote[i] /\ pc[j] # "start"

NoAuthFlags(j) == args[j].auth = None /\ args[j].token = None

CookieNames(cs) == {cs[k][1] : k \in 1..Len(cs)}

FirstIndex(cs, n) == CHOOSE k \in 1..Len(cs) : cs[k][1] = n /\ \A j \in 1..(k - 1) : cs[j][1] # n

LastValue(cs, n) ==
    cs[CHOOSE k \in 1..Len(cs) : cs[k][1] = n /\ \A j \in (k + 1)..Len(cs) : cs[j][1] # n][2]

\* r is e with the Set-Cookie list s merged in by name
MergedByName(e, s, r) ==
    /\ CookieNames(r) = CookieNames(e) \cup CookieNames(s)
    /\ Len(r) = Cardinality(CookieNames(r))
    /\ Len(r) >= Len(e)
    /\ \A k \in 1..Len(e) :
          /\ r[k][1] = e[k][1]
          /\ r[k][2] = IF e[k][1] \in CookieNames(s) THEN LastValue(s, e[k][1]) ELSE e[k][2]
    /\ \A k \in (Len(e) + 1)..Len(r) :
          /\ r[k][1] \in CookieNames(s) \ CookieNames(e)
          /\ r[k][2] = LastValue(s, r[k][1])
          /\ \A l \in (k + 1)..Len(r) : FirstIndex(s, r[k][1]) < FirstIndex(s, r[l][1])

\* C8: update_with_response merges the Set-Cookie list of the response into
\* the cookie list by name: the value replaced in place on a name match,
\* the pair appended otherwise, the other cookies and their order kept.
C8_CookiesMergedByName ==
    \A i \in Procs :
        wrote[i] # 0 => MergedByName(loaded[i][1].cookies, srv[i], session[i][1].cookies)

\* C8 witness: the session held c1=0; the response set c2=a, then c1=b; the
\* saved list is c1=b, c2=a.
C8_Witness ==
    /\ wrote[1] # 0
    /\ loaded[1][1].cookies = << <<"c1", "0">> >>
    /\ srv[1] = << <<"c2", "a">>, <<"c1", "b">> >>
    /\ session[1][1].cookies = << <<"c1", "b">>, <<"c2", "a">> >>

\* C9: the file is read once at the start and written once at the end with
\* no lock: what a save leaves in the file is the saver's own session, the
\* record it loaded with its own response merged in, and nothing of what
\* another invocation saved in between.
C9_SaveOverwrites ==
    \A i \in Procs :
        /\ nwrites[i] <= 1
        /\ (fileVer > 0 /\ wrote[i] = fileVer) =>
              /\ file = session[i]
              /\ CookieNames(file[1].cookies)
                    \subseteq CookieNames(loaded[i][1].cookies) \cup CookieNames(srv[i])

\* C9 witness, the lost update: both invocations loaded the same file, the
\* first saved a cookie from its response, the second saved after it, and
\* the file no longer holds that cookie.
C9_LostUpdate ==
    /\ ver[1] = 0 /\ ver[2] = 0
    /\ wrote[1] = 1 /\ wrote[2] = 2
    /\ "c1" \in CookieNames(srv[1])
    /\ "c1" \in CookieNames(session[1][1].cookies)
    /\ "c1" \notin CookieNames(file[1].cookies)

-----------------------------------------------------------------------------
(* Properties of the parser *)

SepSet == {Separators[n] : n \in 1..Len(Separators)}

\* position j of the raw argument is a separator character made literal by
\* the backslash before it
Escaped(raw, j) == j > 1 /\ raw[j - 1] = "\\" /\ raw[j] \in SepChars

\* separator sep stands unescaped at position j of the raw argument
RawMatch(raw, j, sep) ==
    /\ j + Len(sep) - 1 <= Len(raw)
    /\ \A k \in 1..Len(sep) : raw[j + k - 1] = sep[k] /\ ~Escaped(raw, j + k - 1)

\* the raw text with each escaping backslash dropped
RECURSIVE Strip(_)
Strip(s) ==
    IF s = <<>> THEN <<>>
    ELSE IF Head(s) = "\\" /\ Len(s) >= 2 /\ s[2] \in SepChars THEN Strip(Tail(s))
    ELSE <<Head(s)>> \o Strip(Tail(s))

\* C1: a raw argument with an unescaped separator is split at the earliest
\* position where one of the seven separators matches, by the longest
\* separator matching there; x:=@f is RawJsonDataFile{x, f} and f=@x is
\* DataFile{f, x}.
C1_LongestAtEarliest ==
    pOut # <<>> =>
        LET out == pOut[1]
            P == {j \in 1..Len(pRaw) : \E sep \in SepSet : RawMatch(pRaw, j, sep)}
        IN /\ P # {} =>
                LET j0 == CHOOSE j \in P : \A l \in P : j <= l
                    sep0 == CHOOSE sep \in SepSet :
                               /\ RawMatch(pRaw, j0, sep)
                               /\ \A t \in SepSet : RawMatch(pRaw, j0, t) => Len(t) <= Len(sep)
                IN /\ out.ok
                   /\ out.kind = KindOf(sep0)
                   /\ out.key = Strip(SubSeq(pRaw, 1, j0 - 1))
                   /\ out.value = Strip(SubSeq(pRaw, j0 + Len(sep0), Len(pRaw)))
           /\ pRaw = <<"x", ":", "=", "@", "f">> =>
                out = [ok |-> TRUE, kind |-> "RawJsonDataFile", key |-> <<"x">>, value |-> <<"f">>]
           /\ pRaw = <<"f", "=", "@", "x">> =>
                out = [ok |-> TRUE, kind |-> "DataFile", key |-> <<"f">>, value |-> <<"x">>]

\* C1 witness: x:=@f was parsed to a RawJsonDataFile.
C1_Witness ==
    /\ pRaw = <<"x", ":", "=", "@", "f">>
    /\ pOut # <<>> /\ pOut[1].kind = "RawJsonDataFile"

=============================================================================
